---- MODULE Spec2Model ----
(***************************************************************************)
(* Model of the LaTeX normalizer of src/latex_to_docx_all_v2.py.           *)
(*                                                                         *)
(* A text is a sequence of one-character strings.  Every index that        *)
(* models a Python index is 0-based, as in the source: At(s, i) is s[i]    *)
(* and Slice(s, a, b) is s[a:b].  Regular expressions of the source are    *)
(* modelled by matchers over characters (literal prefix, character class,  *)
(* anchors), scanning left to right as re.finditer / re.sub do.            *)
(***************************************************************************)
EXTENDS Integers, Sequences, FiniteSets, TLC

VARIABLES pc, input, src, prev, stats, idx, lines, brace_delta, hotspots, args, turns

vars == <<pc, input, src, prev, stats, idx, lines, brace_delta, hotspots, args, turns>>

(***************************************************************************)
(* Characters and Python string primitives                                 *)
(***************************************************************************)
NL == "\n"
BS == "\\"

Lower == {"a","b","c","d","e","f","g","h","i","j","k","l","m",
          "n","o","p","q","r","s","t","u","v","w","x","y","z"}
Upper == {"A","B","C","D","E","F","G","H","I","J","K","L","M",
          "N","O","P","Q","R","S","T","U","V","W","X","Y","Z"}
Digit == {"0","1","2","3","4","5","6","7","8","9"}

IsAlpha(c) == c \in Lower \cup Upper
IsWord(c) == c \in Lower \cup Upper \cup Digit \cup {"_"}

At(s, i) == s[i + 1]

Min(a, b) == IF a < b THEN a ELSE b

Max(a, b) == IF a > b THEN a ELSE b

Slice(s, a, b) == SubSeq(s, Min(a, Len(s)) + 1, Min(b, Len(s)))

RECURSIVE Concat(_)
Concat(ss) ==
    IF ss = <<>> THEN <<>> ELSE Head(ss) \o Concat(Tail(ss))

\* s.startswith(lit, i): the literal lit occurs in s at index i
MatchLit(s, i, lit) ==
    /\ i + Len(lit) <= Len(s)
    /\ \A k \in 1..Len(lit) : s[i + k] = lit[k]

\* the least element of a non-empty set of integers
Least(S) == CHOOSE x \in S : \A y \in S : x <= y

\* while i < len(s) and s[i] in class: i += 1
SkipClass(s, i, class) ==
    LET stops == {p \in i..(Len(s) - 1) : At(s, p) \notin class} IN
    IF stops = {} THEN Max(i, Len(s)) ELSE Least(stops)

SpaceChars == {" ", "\t", "\n", "\r"}

\* s.find(lit, i): least index >= i where lit occurs, or -1
Find(s, lit, i) ==
    LET hits == {p \in i..(Len(s) - Len(lit)) : MatchLit(s, p, lit)} IN
    IF hits = {} THEN -1 ELSE Least(hits)

\* s.replace(old, new)
RECURSIVE Replace(_, _, _)
Replace(s, old, new) ==
    LET p == Find(s, old, 0) IN
    IF p = -1 THEN s
    ELSE Slice(s, 0, p) \o new \o Replace(Slice(s, p + Len(old), Len(s)), old, new)

\* text.splitlines(): a trailing line break opens no further line
RECURSIVE SplitFrom(_, _)
SplitFrom(s, start) ==
    IF start >= Len(s) THEN <<>>
    ELSE LET q == Find(s, <<NL>>, start) IN
         IF q = -1 THEN <<Slice(s, start, Len(s))>>
         ELSE <<Slice(s, start, q)>> \o SplitFrom(s, q + 1)

SplitLines(s) == SplitFrom(s, 0)

\* '\n'.join(ls) + '\n'
RECURSIVE JoinNL(_)
JoinNL(ls) ==
    IF ls = <<>> THEN <<>>
    ELSE IF Len(ls) = 1 THEN ls[1]
    ELSE ls[1] \o <<NL>> \o JoinNL(Tail(ls))

JoinLines(ls) == JoinNL(ls) \o <<NL>>

\* ls[at:at] = ins
InsertAt(ls, at, ins) == SubSeq(ls, 1, at) \o ins \o SubSeq(ls, at + 1, Len(ls))

(***************************************************************************)
(* Environment markers: RE_ENV_BEGIN, RE_ENV_END, BALANCE_ENVS             *)
(***************************************************************************)
LitBegin == <<"\\","b","e","g","i","n","{">>
LitEnd == <<"\\","e","n","d","{">>
LitItemize == <<"i","t","e","m","i","z","e">>
LitEnumerate == <<"e","n","u","m","e","r","a","t","e">>
LitDocument == <<"d","o","c","u","m","e","n","t">>
LitCenter == <<"c","e","n","t","e","r">>

EnvNameChars == Lower \cup Upper \cup {"*"}

BALANCE_ENVS ==
    { LitItemize, LitEnumerate,
      <<"d","e","s","c","r","i","p","t","i","o","n">>,
      <<"t","a","b","u","l","a","r">>,
      <<"t","a","b","u","l","a","r","*">>,
      LitCenter,
      <<"f","l","u","s","h","l","e","f","t">>,
      <<"f","l","u","s","h","r","i","g","h","t">>,
      <<"q","u","o","t","e">>,
      <<"q","u","o","t","a","t","i","o","n">>,
      <<"l","i","s","t">> }

\* head{name} with name in [A-Za-z*]+ matched at index i: the end index, or -1
EnvMatchEnd(s, i, head) ==
    IF ~MatchLit(s, i, head) THEN -1
    ELSE LET a == i + Len(head)
             b == SkipClass(s, a, EnvNameChars)
         IN  IF b > a /\ b < Len(s) /\ At(s, b) = "}" THEN b + 1 ELSE -1

\* RE.finditer(s) from index i: the matches left to right, not overlapping
RECURSIVE EnvFindIter(_, _, _)
EnvFindIter(s, i, head) ==
    LET hits == {p \in i..(Len(s) - 1) : EnvMatchEnd(s, p, head) # -1} IN
    IF hits = {} THEN <<>>
    ELSE LET p == Least(hits)
             e == EnvMatchEnd(s, p, head)
         IN  <<[env |-> Slice(s, p + Len(head), e - 1), start |-> p, end |-> e]>>
             \o EnvFindIter(s, e, head)

RE_ENV_BEGIN(s) == EnvFindIter(s, 0, LitBegin)

RE_ENV_END(s) == EnvFindIter(s, 0, LitEnd)

\* \begin{env} / \end{env} as text
BeginOf(env) == LitBegin \o env \o <<"}">>

EndOf(env) == LitEnd \o env \o <<"}">>

(***************************************************************************)
(* balance_envs                                                            *)
(***************************************************************************)
\* ln.lstrip().startswith('%')
is_commented(ln) ==
    LET p == SkipClass(ln, 0, SpaceChars) IN p < Len(ln) /\ At(ln, p) = "%"

\* for m in RE_ENV_BEGIN.finditer(ln): push the tracked names
RECURSIVE ScanBegins(_, _, _)
ScanBegins(st, ms, lineNo) ==
    IF ms = <<>> THEN st
    ELSE LET env == Head(ms).env IN
         ScanBegins(
             IF env \in BALANCE_ENVS
             THEN [st EXCEPT !.stack = Append(@, [env |-> env, line |-> lineNo])]
             ELSE st,
             Tail(ms), lineNo)

\* for m in RE_ENV_END.finditer(ln): pop a matching top, else record the end
RECURSIVE ScanEnds(_, _, _)
ScanEnds(st, ms, lineNo) ==
    IF ms = <<>> THEN st
    ELSE LET env == Head(ms).env
             n == Len(st.stack)
         IN  ScanEnds(
                 IF env \in BALANCE_ENVS
                 THEN IF n > 0 /\ st.stack[n].env = env
                      THEN [st EXCEPT !.stack = SubSeq(@, 1, n - 1)]
                      ELSE [st EXCEPT !.unmatched_end =
                                Append(@, [env |-> env, line |-> lineNo])]
                 ELSE st,
                 Tail(ms), lineNo)

\* for i, ln in enumerate(lines, 1): the scan of lines k.. (1-based)
RECURSIVE ScanLines(_, _, _)
ScanLines(ls, k, st) ==
    IF k > Len(ls) THEN st
    ELSE IF is_commented(ls[k]) THEN ScanLines(ls, k + 1, st)
    ELSE ScanLines(ls, k + 1,
             ScanEnds(ScanBegins(st, RE_ENV_BEGIN(ls[k]), k), RE_ENV_END(ls[k]), k))

EnvScan(ls) == ScanLines(ls, 1, [stack |-> <<>>, unmatched_end |-> <<>>])

\* re.match(r'^\s*\\end\{document\}\s*$', ln)
IsEndDocument(ln) ==
    LET p == SkipClass(ln, 0, SpaceChars)
        lit == EndOf(LitDocument)
    IN  /\ MatchLit(ln, p, lit)
        /\ SkipClass(ln, p + Len(lit), SpaceChars) = Len(ln)

\* for idx, ln in enumerate(lines): the first \end{document} line, else len(lines)
RECURSIVE EndDocFrom(_, _)
EndDocFrom(ls, k) ==
    IF k >= Len(ls) THEN Len(ls)
    ELSE IF IsEndDocument(ls[k + 1]) THEN k
    ELSE EndDocFrom(ls, k + 1)

\* end_doc_idx when the \end{document} line is not looked for: len(lines)
EndDocIdxAtEnd(ls) == Len(ls)

EndDocIdx(ls) == EndDocFrom(ls, 0)

\* the closers in stack order, outermost environment first
BalanceInsertsInOrder(stack) == [k \in 1..Len(stack) |-> EndOf(stack[k].env)]

\* for env, _ in reversed(stack): inserts.append('\\end{env}')
BalanceInserts(stack) ==
    [k \in 1..Len(stack) |-> EndOf(stack[Len(stack) + 1 - k].env)]

balance_envs(text) ==
    LET ls == SplitLines(text)
        st == EnvScan(ls)
        inserts == BalanceInserts(st.stack)
        out == IF inserts # <<>> THEN InsertAt(ls, EndDocIdx(ls), inserts) ELSE ls
    IN  [text |-> JoinLines(out),
         inserted_missing_ends |-> Len(inserts),
         unmatched_end_count |-> Len(st.unmatched_end)]

(***************************************************************************)
(* Input texts: sequences of lexemes, concatenated                          *)
(***************************************************************************)
SeqsUpTo(S, n) == UNION {[1..k -> S] : k \in 0..n}

TextsOver(S, n) == {Concat(t) : t \in SeqsUpTo(S, n)}

\* the command line flags that the normalizer reads
NoArgs == [auto_fix_braces |-> FALSE]

NoStats == [inserted_missing_ends |-> 0, unmatched_end_count |-> 0]

(***************************************************************************)
(* SpecBalance: balance_envs applied, and applied again to its own output  *)
(***************************************************************************)
MaxBalTok == 4
MaxCalls == 2

BalTokens ==
    { BeginOf(LitItemize), EndOf(LitItemize), BeginOf(LitCenter),
      EndOf(LitDocument), <<"%">>, <<NL>> }

InitBalance ==
    /\ pc = "balance"
    /\ input \in TextsOver(BalTokens, MaxBalTok)
    /\ src = input
    /\ prev = <<>>
    /\ stats = NoStats
    /\ idx = 0
    /\ lines = <<>>
    /\ brace_delta = 0
    /\ hotspots = <<>>
    /\ turns = 0
    /\ args = NoArgs

\* s, stats = balance_envs(s)
Balance ==
    /\ pc = "balance"
    /\ turns < MaxCalls
    /\ LET r == balance_envs(src) IN
       /\ src' = r.text
       /\ stats' = [inserted_missing_ends |-> r.inserted_missing_ends,
                    unmatched_end_count |-> r.unmatched_end_count]
    /\ prev' = src
    /\ turns' = turns + 1
    /\ UNCHANGED <<pc, input, idx, lines, brace_delta, hotspots, args>>

NextBalance == Balance

SpecBalance == InitBalance /\ [][NextBalance]_vars

\* C1: balance_envs is idempotent: a second call inserts no closer and
\* returns the text of the first call, and rescanning the output of a call
\* leaves no entry on the open-environment stack.
C1_Idempotent ==
    /\ turns >= 1 => EnvScan(SplitLines(src)).stack = <<>>
    /\ turns = 2 => (stats.inserted_missing_ends = 0 /\ src = prev)

\* The point of insertion, stated apart from the code: the lines before the
\* first \end{document} marker line, or all lines when there is none.
LinesBeforeMarker(ls) ==
    IF \E k \in 1..Len(ls) : IsEndDocument(ls[k])
    THEN (CHOOSE k \in 1..Len(ls) :
              IsEndDocument(ls[k]) /\ \A h \in 1..(k - 1) : ~IsEndDocument(ls[h])) - 1
    ELSE Len(ls)

\* C2: balance_envs inserts one \end{name} line per entry left on the stack,
\* innermost first, as one block right before the first \end{document} line
\* (or after the last line), reports their number, and keeps every original
\* line in place.
C2_ClosersInserted ==
    turns >= 1 =>
        LET ls == SplitLines(prev)
            stack == EnvScan(ls).stack
            n == Len(stack)
            at == LinesBeforeMarker(ls)
            block == [k \in 1..n |-> LitEnd \o stack[n + 1 - k].env \o <<"}">>]
            want == SubSeq(ls, 1, at) \o block \o SubSeq(ls, at + 1, Len(ls))
        IN  /\ src = JoinLines(want)
            /\ want # <<>> => SplitLines(src) = want
            /\ stats.inserted_missing_ends = n

\* two open environments are closed in front of an \end{document} line
C2_Witness ==
    /\ turns = 1
    /\ stats.inserted_missing_ends = 2
    /\ \E k \in 1..Len(SplitLines(prev)) : IsEndDocument(SplitLines(prev)[k])

(***************************************************************************)
(* replace_invocations                                                     *)
(***************************************************************************)
LitBeginItemize == <<"\\","b","e","g","i","n","{","i","t","e","m","i","z","e","}">>
LitEndItemize == <<"\\","e","n","d","{","i","t","e","m","i","z","e","}">>
LitSubHeadingListStart == <<"\\","r","e","s","u","m","e","S","u","b","H","e","a","d","i","n","g","L","i","s","t","S","t","a","r","t">>
LitSubHeadingListEnd == <<"\\","r","e","s","u","m","e","S","u","b","H","e","a","d","i","n","g","L","i","s","t","E","n","d">>
LitItemListStart == <<"\\","r","e","s","u","m","e","I","t","e","m","L","i","s","t","S","t","a","r","t">>
LitItemListEnd == <<"\\","r","e","s","u","m","e","I","t","e","m","L","i","s","t","E","n","d">>
LitResumeItem == <<"\\","r","e","s","u","m","e","I","t","e","m","{">>
LitResumeSubItem == <<"\\","r","e","s","u","m","e","S","u","b","I","t","e","m","{">>
LitResumeSubheading == <<"\\","r","e","s","u","m","e","S","u","b","h","e","a","d","i","n","g","{">>
LitItemSp == <<"\\","i","t","e","m"," ">>

\* the four ln.replace(...) calls, in the order of the source
ReplaceListMacros(ln) ==
    Replace(Replace(Replace(Replace(ln,
        LitSubHeadingListStart, LitBeginItemize),
        LitSubHeadingListEnd, LitEndItemize),
        LitItemListStart, LitBeginItemize),
        LitItemListEnd, LitEndItemize)

\* number of matches whose name is itemize
CountItemize(ms) == Cardinality({k \in 1..Len(ms) : ms[k].env = LitItemize})

\* the two finditer loops: every begin on the line first, then every end
DepthAfterMarkers(ln, depth) ==
    LET up == depth + CountItemize(RE_ENV_BEGIN(ln)) IN
    Max(0, up - CountItemize(RE_ENV_END(ln)))

\* _repl_item
repl_item(text_item, itemize_depth) ==
    IF itemize_depth = 0
    THEN [text |-> LitBeginItemize \o <<NL>> \o LitItemSp \o text_item,
          depth |-> itemize_depth + 1]
    ELSE [text |-> LitItemSp \o text_item, depth |-> itemize_depth]

\* head([^}]*)\} matched at index i: the end index, or -1
ItemMatchEnd(ln, i, head) ==
    IF ~MatchLit(ln, i, head) THEN -1
    ELSE LET q == Find(ln, <<"}">>, i + Len(head)) IN
         IF q = -1 THEN -1 ELSE q + 1

\* re.sub(head([^}]*)\}, _repl_item, ln) from index i
RECURSIVE SubItems(_, _, _, _)
SubItems(ln, i, head, depth) ==
    LET hits == {p \in i..(Len(ln) - 1) : ItemMatchEnd(ln, p, head) # -1} IN
    IF hits = {} THEN [text |-> Slice(ln, i, Len(ln)), depth |-> depth]
    ELSE LET p == Least(hits)
             e == ItemMatchEnd(ln, p, head)
             rep == repl_item(Slice(ln, p + Len(head), e - 1), depth)
             r == SubItems(ln, e, head, rep.depth)
         IN  [text |-> Slice(ln, i, p) \o rep.text \o r.text, depth |-> r.depth]

\* one turn of the loop over text.splitlines()
RewriteLine(raw, itemize_depth) ==
    LET ln == ReplaceListMacros(raw)
        d == DepthAfterMarkers(ln, itemize_depth)
        a == SubItems(ln, 0, LitResumeItem, d)
    IN  SubItems(a.text, 0, LitResumeSubItem, a.depth)

RECURSIVE RewriteLines(_, _, _)
RewriteLines(ls, k, depth) ==
    IF k > Len(ls) THEN <<>>
    ELSE LET r == RewriteLine(ls[k], depth) IN
         <<r.text>> \o RewriteLines(ls, k + 1, r.depth)

\* \{(.*?)\} four times, lazily: the end of each argument is the first "}{"
\* (the last one: the first "}") at or after its start; -1 when one is missing
SubheadingArgs(s, i) ==
    LET sep == <<"}", "{">>
        a1 == Find(s, sep, i)
        a2 == IF a1 = -1 THEN -1 ELSE Find(s, sep, a1 + 2)
        a3 == IF a2 = -1 THEN -1 ELSE Find(s, sep, a2 + 2)
        a4 == IF a3 = -1 THEN -1 ELSE Find(s, <<"}">>, a3 + 2)
    IN  IF a4 = -1 THEN <<>>
        ELSE <<Slice(s, i, a1), Slice(s, a1 + 2, a2), Slice(s, a2 + 2, a3),
               Slice(s, a3 + 2, a4), <<a4 + 1>> >>

subheading_repl(A, B, C, D) ==
    <<"\\","i","t","e","m"," ","\\","t","e","x","t","b","f","{">> \o A \o <<"}","\\","h","f","i","l","l","\\","t","e","x","t","i","t","{">> \o B \o <<"}","\\","\\">>
    \o <<"\\","t","e","x","t","i","t","{">> \o C \o <<"}","\\","h","f","i","l","l","\\","t","e","x","t","i","t","{">> \o D \o <<"}">>

\* re.sub(r'\\resumeSubheading\{(.*?)\}\{(.*?)\}\{(.*?)\}\{(.*?)\}', ..., flags=re.S)
SubheadingAt(s, p) ==
    IF MatchLit(s, p, LitResumeSubheading)
    THEN SubheadingArgs(s, p + Len(LitResumeSubheading))
    ELSE <<>>

RECURSIVE SubSubheadings(_, _)
SubSubheadings(s, i) ==
    LET hits == {p \in i..(Len(s) - 1) : SubheadingAt(s, p) # <<>>} IN
    IF hits = {} THEN Slice(s, i, Len(s))
    ELSE LET p == Least(hits)
             g == SubheadingAt(s, p)
         IN  Slice(s, i, p) \o subheading_repl(g[1], g[2], g[3], g[4])
             \o SubSubheadings(s, g[5][1])

replace_invocations(text) ==
    SubSubheadings(JoinLines(RewriteLines(SplitLines(text), 1, 0)), 0)

(***************************************************************************)
(* SpecRewrite: replace_invocations applied to a text                      *)
(***************************************************************************)
MaxRewTok == 4

RewTokens ==
    { <<"\\","r","e","s","u","m","e","I","t","e","m","{","a","}">>, <<"\\","r","e","s","u","m","e","S","u","b","I","t","e","m","{","b","}">>, <<"\\","r","e","s","u","m","e","I","t","e","m","{","\\","t","e","x","t","b","f","{","c","}","d","}">>,
      LitItemListStart, LitBeginItemize, LitEndItemize, <<NL>> }

InitRewrite ==
    /\ pc = "rewrite"
    /\ input \in TextsOver(RewTokens, MaxRewTok)
    /\ src = input
    /\ prev = <<>>
    /\ stats = NoStats
    /\ idx = 0
    /\ lines = <<>>
    /\ brace_delta = 0
    /\ hotspots = <<>>
    /\ turns = 0
    /\ args = NoArgs

\* s = replace_invocations(s)
Rewrite ==
    /\ pc = "rewrite"
    /\ src' = replace_invocations(src)
    /\ prev' = src
    /\ pc' = "rewritten"
    /\ turns' = turns + 1
    /\ UNCHANGED <<input, stats, idx, lines, brace_delta, hotspots, args>>

NextRewrite == Rewrite

SpecRewrite == InitRewrite /\ [][NextRewrite]_vars

\* number of itemize environments open at index upto of s: the markers of
\* s[i:upto] taken in the order of the text, an \end{itemize} closing the
\* list opened last
RECURSIVE OpenLists(_, _, _, _)
OpenLists(s, i, upto, d) ==
    LET marks == {p \in i..(upto - 1) :
                      MatchLit(s, p, LitBeginItemize) \/ MatchLit(s, p, LitEndItemize)}
    IN  IF marks = {} THEN d
        ELSE LET q == Least(marks) IN
             OpenLists(s, q + 1, upto,
                       IF MatchLit(s, q, LitBeginItemize) THEN d + 1 ELSE Max(0, d - 1))

\* C3: every \item that replace_invocations produces from a \resumeItem or
\* \resumeSubItem invocation stands inside an open itemize environment of the
\* output text (the input texts hold no \item of their own).
C3_ItemInsideList ==
    pc = "rewritten" =>
        \A p \in 0..(Len(src) - 1) :
            MatchLit(src, p, LitItemSp) => OpenLists(src, 0, p, 0) > 0

\* index after the brace that balances the '{' at index open, or -1
BalancingEnd(s, open) ==
    LET net(q) == Cardinality({k \in open..q : At(s, k) = "{"})
                  - Cardinality({k \in open..q : At(s, k) = "}"})
        ends == {q \in open..(Len(s) - 1) : net(q) = 0}
    IN  IF ends = {} THEN -1 ELSE Least(ends) + 1

\* what a run of \resumeItem{..} invocations starting at index i, separated
\* by line breaks only, is to become: one \begin{itemize} line before the
\* first item, then one \item per invocation with its argument
RECURSIVE ItemRun(_, _, _)
ItemRun(s, i, first) ==
    IF i >= Len(s) THEN <<>>
    ELSE IF At(s, i) = NL THEN <<NL>> \o ItemRun(s, i + 1, first)
    ELSE IF MatchLit(s, i, LitResumeItem)
            /\ BalancingEnd(s, i + Len(LitResumeItem) - 1) # -1
    THEN LET e == BalancingEnd(s, i + Len(LitResumeItem) - 1) IN
         (IF first THEN LitBeginItemize \o <<NL>> ELSE <<>>)
         \o LitItemSp \o Slice(s, i + Len(LitResumeItem), e - 1)
         \o ItemRun(s, e, FALSE)
    ELSE <<>>

\* C9: when the first \resumeItem{..} invocations of a text stand outside any
\* list (no marker or macro before them), exactly one \begin{itemize} line is
\* synthesized, right before the item line of the first one; the invocations
\* that follow it, on the same or on later lines, give only their \item, and
\* every item keeps its argument text.
C9_OneListBegin ==
    LET p == Find(input, LitResumeItem, 0)
        want == Slice(input, 0, p) \o ItemRun(input, p, TRUE)
    IN  (pc = "rewritten" /\ p # -1 /\ \A k \in 0..(p - 1) : At(input, k) = NL)
            => Slice(src, 0, Len(want)) = want

(***************************************************************************)
(* strip_macro_definitions                                                 *)
(***************************************************************************)
LitResume == <<"\\","r","e","s","u","m","e">>
LitLabelitemi == <<"\\","l","a","b","e","l","i","t","e","m","i">>
LitStripped == <<"%"," ","(","s","t","r","i","p","p","e","d"," ","m","a","c","r","o"," ","d","e","f","i","n","i","t","i","o","n",")">> \o <<NL>>

CmdNames == { <<"n","e","w","c","o","m","m","a","n","d">>, <<"r","e","n","e","w","c","o","m","m","a","n","d">>, <<"p","r","o","v","i","d","e","c","o","m","m","a","n","d">>, <<"d","e","f">> }

\* the lookahead windows of _strip_one_definition and strip_macro_definitions
InnerWindow == 400
OuterWindow == 500

\* RE_CMD_START.match(s, i): the end index, or -1.  \b holds after the name
\* when no word character follows it.
CmdMatchEnd(s, i) ==
    IF i < Len(s) /\ At(s, i) = BS
    THEN LET ends == {i + 1 + Len(n) : n \in {n \in CmdNames : MatchLit(s, i + 1, n)}}
             ok == {e \in ends : e >= Len(s) \/ ~IsWord(At(s, e))}
         IN  IF ok = {} THEN -1 ELSE Least(ok)
    ELSE -1

\* RE_CMD_START.search(s, i): the start index of the first match, or -1
CmdSearch(s, i) ==
    LET hits == {p \in i..(Len(s) - 1) : CmdMatchEnd(s, p) # -1} IN
    IF hits = {} THEN -1 ELSE Least(hits)

\* any(re.search(p, header_text) for p in MACRO_NAME_PATTERNS)
should_strip_definition(header_text) ==
    \E p \in 0..(Len(header_text) - 1) :
        \/ /\ MatchLit(header_text, p, LitResume)
           /\ p + Len(LitResume) < Len(header_text)
           /\ IsAlpha(At(header_text, p + Len(LitResume)))
        \/ MatchLit(header_text, p, LitBeginItemize)
        \/ MatchLit(header_text, p, LitEndItemize)
        \/ MatchLit(header_text, p, LitLabelitemi)

\* the while loop of _skip_balanced from index j, at the next bracket
RECURSIVE SkipLoop(_, _, _, _, _)
SkipLoop(s, j, depth, open_ch, close_ch) ==
    LET br == {p \in j..(Len(s) - 1) : At(s, p) \in {open_ch, close_ch}} IN
    IF br = {} THEN Max(j, Len(s))
    ELSE LET p == Least(br) IN
         IF At(s, p) = open_ch THEN SkipLoop(s, p + 1, depth + 1, open_ch, close_ch)
         ELSE IF depth - 1 = 0 THEN p + 1
         ELSE SkipLoop(s, p + 1, depth - 1, open_ch, close_ch)

\* _skip_balanced without its depth count: it ends at the first closer
skip_to_first_close(s, i, open_ch, close_ch) ==
    IF i >= Len(s) \/ At(s, i) # open_ch THEN i
    ELSE LET q == Find(s, <<close_ch>>, i) IN IF q = -1 THEN Len(s) ELSE q + 1

skip_balanced(s, i, open_ch, close_ch) ==
    IF i >= Len(s) \/ At(s, i) # open_ch THEN i
    ELSE SkipLoop(s, i, 0, open_ch, close_ch)

\* src[:start_idx] + '% (stripped macro definition)\n' + src[end_idx:], start_idx + 1
Stripped(s, start_idx, end_idx) ==
    [src |-> Slice(s, 0, start_idx) \o LitStripped \o Slice(s, end_idx, Len(s)),
     i |-> start_idx + 1]

\* j = src.find(ch, from); end_idx = (j + 1) if j != -1 else len(src)
ThroughLineEnd(s, from) ==
    LET j == Find(s, <<NL>>, from) IN IF j # -1 THEN j + 1 ELSE Len(s)

strip_one_definition(s, start_idx) ==
    LET m == CmdMatchEnd(s, start_idx) IN
    IF m = -1 THEN [src |-> s, i |-> start_idx + 1]
    ELSE IF ~should_strip_definition(Slice(s, start_idx, Min(Len(s), m + InnerWindow)))
    THEN [src |-> s, i |-> m]
    ELSE
    LET i1 == SkipClass(s, m, SpaceChars)
        \* optional {name} or \def\name#1#2...
        i2 == IF i1 < Len(s) /\ At(s, i1) = "{" THEN skip_balanced(s, i1, "{", "}")
              ELSE IF i1 < Len(s) /\ At(s, i1) = BS
              THEN SkipClass(s,
                       SkipClass(s, i1 + 1, Lower \cup Upper \cup {"@"}),
                       {" ", "#"} \cup Digit)
              ELSE i1
        \* optional [..]
        i3 == SkipClass(s, i2, SpaceChars)
        i4 == IF i3 < Len(s) /\ At(s, i3) = "[" THEN skip_balanced(s, i3, "[", "]")
              ELSE i3
        \* BODY { ... }
        i5 == SkipClass(s, i4, SpaceChars)
    IN  IF i5 >= Len(s) THEN Stripped(s, start_idx, ThroughLineEnd(s, start_idx))
        ELSE IF At(s, i5) # "{" /\ Find(s, <<"{">>, i5) = -1
        THEN Stripped(s, start_idx, ThroughLineEnd(s, i5))
        ELSE LET i6 == IF At(s, i5) # "{" THEN Find(s, <<"{">>, i5) ELSE i5 IN
             Stripped(s, start_idx, skip_balanced(s, i6, "{", "}"))

\* one turn of the while True loop of strip_macro_definitions
StripStep(s, i) ==
    LET cmd_start == CmdSearch(s, i) IN
    IF cmd_start = -1 THEN [src |-> s, i |-> i, done |-> TRUE]
    ELSE IF should_strip_definition(
                Slice(s, cmd_start, Min(Len(s), cmd_start + OuterWindow)))
    THEN LET r == strip_one_definition(s, cmd_start) IN
         [src |-> r.src, i |-> r.i, done |-> FALSE]
    ELSE [src |-> s, i |-> CmdMatchEnd(s, cmd_start), done |-> FALSE]

RECURSIVE StripLoop(_, _)
StripLoop(s, i) ==
    LET r == StripStep(s, i) IN
    IF r.done THEN r.src ELSE StripLoop(r.src, r.i)

strip_macro_definitions(text) == StripLoop(text, 0)

(***************************************************************************)
(* SpecStrip: strip_macro_definitions applied to a text                    *)
(***************************************************************************)
MaxStripTok == 3

StripTokens ==
    { <<"\\","n","e","w","c","o","m","m","a","n","d","{","\\","r","e","s","u","m","e","I","t","e","m","}","[","1","]","{","\\","i","t","e","m","{","#","1","}","}">>, <<"\\","d","e","f","\\","r","e","s","u","m","e","S","u","b","I","t","e","m","#","1","{","x","}">>,
      <<"\\","r","e","n","e","w","c","o","m","m","a","n","d","{","\\","l","a","b","e","l","i","t","e","m","i","i","}","{","$","\\","c","i","r","c","$","}">>, <<"\\","n","e","w","c","o","m","m","a","n","d","{","\\","f","o","o","}","{","x","}">>,
      <<"\\","r","e","s","u","m","e","I","t","e","m","{","a","}">>, LitBeginItemize, <<"}">>, <<NL>> }

InitStrip ==
    /\ pc = "strip"
    /\ input \in TextsOver(StripTokens, MaxStripTok)
    /\ src = input
    /\ prev = <<>>
    /\ stats = NoStats
    /\ idx = 0
    /\ lines = <<>>
    /\ brace_delta = 0
    /\ hotspots = <<>>
    /\ turns = 0
    /\ args = NoArgs

\* s = strip_macro_definitions(s)
Strip ==
    /\ pc = "strip"
    /\ src' = strip_macro_definitions(src)
    /\ prev' = src
    /\ pc' = "stripped"
    /\ turns' = turns + 1
    /\ UNCHANGED <<input, stats, idx, lines, brace_delta, hotspots, args>>

NextStrip == Strip

SpecStrip == InitStrip /\ [][NextStrip]_vars

\* The shape of a definition whose keyword starts at index p, stated apart
\* from the code: keyword, name ({..} or \name with parameters), optional
\* [count], body {..} closed by the brace that balances its first brace.
DefKeywords(s) == {p \in 0..(Len(s) - 1) : CmdMatchEnd(s, p) # -1}

DefNameStart(s, p) == SkipClass(s, CmdMatchEnd(s, p), SpaceChars)

DefNameEnd(s, p) ==
    LET a == DefNameStart(s, p) IN
    IF a < Len(s) /\ At(s, a) = "{" THEN BalancingEnd(s, a)
    ELSE IF a < Len(s) /\ At(s, a) = BS
    THEN SkipClass(s, SkipClass(s, a + 1, Lower \cup Upper \cup {"@"}),
                   {" ", "#"} \cup Digit)
    ELSE -1

DefBodyStart(s, p) ==
    LET a == SkipClass(s, DefNameEnd(s, p), SpaceChars)
        b == IF a < Len(s) /\ At(s, a) = "["
             THEN (IF Find(s, <<"]">>, a) = -1 THEN Len(s) ELSE Find(s, <<"]">>, a) + 1)
             ELSE a
    IN  SkipClass(s, b, SpaceChars)

\* the definition at p has a name and a body with a balancing brace
DefWellFormed(s, p) ==
    /\ DefNameEnd(s, p) # -1
    /\ DefBodyStart(s, p) < Len(s)
    /\ At(s, DefBodyStart(s, p)) = "{"
    /\ BalancingEnd(s, DefBodyStart(s, p)) # -1

DefEnd(s, p) == BalancingEnd(s, DefBodyStart(s, p))

\* the defined name matches one of MACRO_NAME_PATTERNS
DefStructural(s, p) ==
    /\ DefNameEnd(s, p) # -1
    /\ should_strip_definition(Slice(s, DefNameStart(s, p), DefNameEnd(s, p)))

\* C4: a definition whose defined name matches no structural pattern is kept
\* verbatim, whatever follows it: a text all of whose definitions are
\* ordinary comes back unchanged.
C4_OrdinaryKept ==
    (pc = "stripped" /\ \A p \in DefKeywords(input) : ~DefStructural(input, p))
        => src = input

\* the text with every definition from index i on replaced by the marker
RECURSIVE WithoutDefinitions(_, _)
WithoutDefinitions(s, i) ==
    LET ks == {p \in DefKeywords(s) : p >= i} IN
    IF ks = {} THEN Slice(s, i, Len(s))
    ELSE LET p == Least(ks) IN
         Slice(s, i, p) \o LitStripped \o WithoutDefinitions(s, DefEnd(s, p))

AllStructural(s) ==
    \A p \in DefKeywords(s) : DefStructural(s, p) /\ DefWellFormed(s, p)

\* C8: a stripped structural definition is removed from its keyword through
\* the brace that balances the first brace of its body, and replaced by the
\* marker line: braces nested in the body do not end the span early and no
\* text after the balancing brace is removed.
C8_ExactSpan ==
    (pc = "stripped" /\ AllStructural(input)) => src = WithoutDefinitions(input, 0)

\* a definition with a nested brace in its body and text after it was stripped
C8_Witness ==
    /\ pc = "stripped"
    /\ AllStructural(input)
    /\ \E p \in DefKeywords(input) :
          /\ DefEnd(input, p) < Len(input)
          /\ \E k \in (DefBodyStart(input, p) + 1)..(DefEnd(input, p) - 1) :
                At(input, k) = "{"
    /\ src # input

(***************************************************************************)
(* Brace analysis: find_unmatched_open_braces, rough_brace_imbalance,      *)
(* auto_fix_braces                                                         *)
(***************************************************************************)
\* raw.split('%', 1)[0]
BeforePercent(raw) ==
    LET q == Find(raw, <<"%">>, 0) IN IF q = -1 THEN raw ELSE Slice(raw, 0, q)

\* s.count(ch)
Count(s, ch) == Cardinality({k \in 1..Len(s) : s[k] = ch})

\* the while col < len(line) loop, at the next brace of the line
RECURSIVE ScanBraces(_, _, _, _, _)
ScanBraces(stack, line, col, line_no, raw) ==
    LET br == {p \in col..(Len(line) - 1) : At(line, p) \in {"{", "}"}} IN
    IF br = {} THEN stack
    ELSE LET p == Least(br) IN
         ScanBraces(
             IF At(line, p) = "{"
             THEN Append(stack, [line |-> line_no, col |-> p + 1, raw |-> raw])
             ELSE IF stack # <<>> THEN SubSeq(stack, 1, Len(stack) - 1)
             ELSE stack,
             line, p + 1, line_no, raw)

\* for line_no, raw in enumerate(text.splitlines(), 1)
RECURSIVE ScanBraceLines(_, _, _)
ScanBraceLines(stack, ls, k) ==
    IF k > Len(ls) THEN stack
    ELSE ScanBraceLines(ScanBraces(stack, BeforePercent(ls[k]), 0, k, ls[k]), ls, k + 1)

find_unmatched_open_braces(text) == ScanBraceLines(<<>>, SplitLines(text), 1)

RECURSIVE SumBraces(_, _)
SumBraces(ls, k) ==
    IF k > Len(ls) THEN 0
    ELSE LET s == BeforePercent(ls[k]) IN
         Count(s, "{") - Count(s, "}") + SumBraces(ls, k + 1)

rough_brace_imbalance(text) == SumBraces(SplitLines(text), 1)

\* ['}' for _ in range(how_many)]
ClosingBraces(how_many) == [k \in 1..how_many |-> <<"}">>]

auto_fix_braces(text, how_many) ==
    IF how_many <= 0 THEN text
    ELSE LET ls == SplitLines(text) IN
         JoinLines(InsertAt(ls, EndDocIdx(ls), ClosingBraces(how_many)))

(***************************************************************************)
(* SpecBrace: the brace audit of a text, then auto_fix_braces              *)
(***************************************************************************)
MaxBraceTok == 4

BraceTokens ==
    { <<"{">>, <<"}">>, <<"%">>, <<"\\","%">>, <<NL>>, EndOf(LitDocument) \o <<NL>> }

DocExample == <<"a","{","b","{","c","}">>

InitBrace ==
    /\ pc = "audit"
    /\ input \in TextsOver(BraceTokens, MaxBraceTok) \cup {DocExample}
    /\ src = input
    /\ prev = <<>>
    /\ stats = NoStats
    /\ idx = 0
    /\ lines = <<>>
    /\ brace_delta = 0
    /\ hotspots = <<>>
    /\ turns = 0
    /\ args = NoArgs

\* brace_delta = rough_brace_imbalance(s); find_unmatched_open_braces(s)
Audit ==
    /\ pc = "audit"
    /\ brace_delta' = rough_brace_imbalance(src)
    /\ hotspots' = find_unmatched_open_braces(src)
    /\ pc' = "audited"
    /\ turns' = turns + 1
    /\ UNCHANGED <<input, src, prev, stats, idx, lines, args>>

\* s = auto_fix_braces(s, brace_delta); brace_delta = rough_brace_imbalance(s)
AutoFix ==
    /\ pc = "audited"
    /\ src' = auto_fix_braces(src, brace_delta)
    /\ prev' = src
    /\ brace_delta' = rough_brace_imbalance(auto_fix_braces(src, brace_delta))
    /\ pc' = "fixed"
    /\ turns' = turns + 1
    /\ UNCHANGED <<input, stats, idx, lines, hotspots, args>>

NextBrace == Audit \/ AutoFix

SpecBrace == InitBrace /\ [][NextBrace]_vars

\* A comment, stated apart from the code: the text of a line from its first
\* unescaped '%' (one not preceded by a backslash) on.
CodePart(raw) ==
    LET cs == {p \in 0..(Len(raw) - 1) :
                  At(raw, p) = "%" /\ (p = 0 \/ At(raw, p - 1) # BS)}
    IN  IF cs = {} THEN raw ELSE Slice(raw, 0, Least(cs))

\* the braces outside comments, in the order of the text, each with its
\* 1-based line and column
RECURSIVE BracesOf(_, _)
BracesOf(ls, k) ==
    IF k > Len(ls) THEN <<>>
    ELSE LET code == CodePart(ls[k])
             at == {p \in 1..Len(code) : code[p] \in {"{", "}"}}
             nth(n) == CHOOSE p \in at : Cardinality({q \in at : q < p}) = n - 1
         IN  [n \in 1..Cardinality(at) |->
                 [ch |-> code[nth(n)], line |-> k, col |-> nth(n)]]
             \o BracesOf(ls, k + 1)

\* '{' minus '}' outside comments
NetBraces(text) ==
    LET bs == BracesOf(SplitLines(text), 1) IN
    Cardinality({n \in 1..Len(bs) : bs[n].ch = "{"})
    - Cardinality({n \in 1..Len(bs) : bs[n].ch = "}"})

\* C5: rough_brace_imbalance returns the number k of '{' in excess of '}'
\* outside comments; for k > 0 auto_fix_braces(text, k) inserts k lines '}'
\* as one block before the first \end{document} line (or at the end) and
\* nothing else, and the imbalance of the result is 0; for k <= 0 it returns
\* the text unchanged.
C5_ImbalanceAndFix ==
    LET k == NetBraces(input)
        ls == SplitLines(input)
        at == LinesBeforeMarker(ls)
    IN  /\ pc = "audited" => brace_delta = k
        /\ (pc = "fixed" /\ k > 0) =>
              /\ SplitLines(src)
                    = SubSeq(ls, 1, at) \o [n \in 1..k |-> <<"}">>]
                      \o SubSeq(ls, at + 1, Len(ls))
              /\ brace_delta = 0
        /\ (pc = "fixed" /\ k <= 0) => src = input

\* the opening braces outside comments that no later closing brace closes:
\* those after which the braces never come back to balance
OpenForever(text) ==
    LET bs == BracesOf(SplitLines(text), 1)
        net(a, b) == Cardinality({n \in a..b : bs[n].ch = "{"})
                     - Cardinality({n \in a..b : bs[n].ch = "}"})
        open == {a \in 1..Len(bs) :
                    bs[a].ch = "{" /\ \A b \in a..Len(bs) : net(a, b) > 0}
        nth(n) == CHOOSE a \in open : Cardinality({q \in open : q < a}) = n - 1
    IN  [n \in 1..Cardinality(open) |->
            [line |-> bs[nth(n)].line, col |-> bs[nth(n)].col]]

\* C6: find_unmatched_open_braces returns exactly the opening braces that no
\* later closing brace closes, each with its 1-based line and column, oldest
\* first; for the text a{b{c} that is one entry, at line 1, column 2.
C6_UnmatchedOpenings ==
    pc = "audited" =>
        /\ [n \in 1..Len(hotspots) |->
               [line |-> hotspots[n].line, col |-> hotspots[n].col]]
              = OpenForever(input)
        /\ input = DocExample =>
              /\ Len(hotspots) = 1
              /\ hotspots[1].line = 1
              /\ hotspots[1].col = 2

(***************************************************************************)
(* ensure_list_items                                                       *)
(***************************************************************************)
LitItem == <<"\\","i","t","e","m">>
ListNames == {LitItemize, LitEnumerate}

\* re.search(r'\\begin\{(itemize|enumerate)\}', ln)
HasListBegin(ln) ==
    \E p \in 0..(Len(ln) - 1) : \E n \in ListNames : MatchLit(ln, p, BeginOf(n))

\* re.search(r'\\end\{(itemize|enumerate)\}', ln)
HasListEnd(ln) ==
    \E p \in 0..(Len(ln) - 1) : \E n \in ListNames : MatchLit(ln, p, EndOf(n))

\* \item\b at index p
ItemAt(s, p) ==
    /\ MatchLit(s, p, LitItem)
    /\ (p + Len(LitItem) >= Len(s) \/ ~IsWord(At(s, p + Len(LitItem))))

\* re.search(r'^\s*\\item\b', ln)
IsItemLine(ln) == ItemAt(ln, SkipClass(ln, 0, SpaceChars))

\* the inner while loop from line index j: TRUE when an item line comes
\* before the first line with a list end
RECURSIVE ItemFound(_, _)
ItemFound(ls, j) ==
    IF j >= Len(ls) \/ HasListEnd(ls[j + 1]) THEN FALSE
    ELSE IF IsItemLine(ls[j + 1]) THEN TRUE
    ELSE ItemFound(ls, j + 1)

\* the turn with lines.insert(i, ..) in place of lines.insert(i+1, ..) and a
\* single i += 1: the scan meets the same list begin again
EnsureStepAtBegin(ls, i) ==
    IF HasListBegin(ls[i + 1]) /\ ~ItemFound(ls, i + 1)
    THEN [lines |-> InsertAt(ls, i, <<LitItem>>), i |-> i + 1]
    ELSE [lines |-> ls, i |-> i + 1]

\* one turn of the while i < len(lines) loop
EnsureStep(ls, i) ==
    IF HasListBegin(ls[i + 1]) /\ ~ItemFound(ls, i + 1)
    THEN [lines |-> InsertAt(ls, i + 1, <<LitItem>>), i |-> i + 2]
    ELSE [lines |-> ls, i |-> i + 1]

RECURSIVE EnsureLoop(_, _)
EnsureLoop(ls, i) ==
    IF i >= Len(ls) THEN ls
    ELSE LET r == EnsureStep(ls, i) IN EnsureLoop(r.lines, r.i)

ensure_list_items(text) == JoinLines(EnsureLoop(SplitLines(text), 0))

(***************************************************************************)
(* SpecItems: ensure_list_items applied to a text                          *)
(***************************************************************************)
MaxItemsTok == 4

ItemsTokens ==
    { LitBeginItemize, LitEndItemize, BeginOf(LitEnumerate), <<"\\","i","t","e","m"," ","a">>, <<NL>> }

InitItems ==
    /\ pc = "items"
    /\ input \in TextsOver(ItemsTokens, MaxItemsTok)
    /\ src = input
    /\ prev = <<>>
    /\ stats = NoStats
    /\ idx = 0
    /\ lines = <<>>
    /\ brace_delta = 0
    /\ hotspots = <<>>
    /\ turns = 0
    /\ args = NoArgs

\* s = ensure_list_items(s)
EnsureItems ==
    /\ pc = "items"
    /\ src' = ensure_list_items(src)
    /\ prev' = src
    /\ pc' = "itemized"
    /\ turns' = turns + 1
    /\ UNCHANGED <<input, stats, idx, lines, brace_delta, hotspots, args>>

NextItems == EnsureItems

SpecItems == InitItems /\ [][NextItems]_vars

\* The list environments of a text, stated apart from the code: a list
\* begins at a \begin{itemize|enumerate} and ends at the list end that
\* balances it (at the end of the text when none does); it has an item when
\* an \item stands between the two.
ListBeginAt(s, p) == \E n \in ListNames : MatchLit(s, p, BeginOf(n))

ListEndAt(s, p) == \E n \in ListNames : MatchLit(s, p, EndOf(n))

ListClose(s, p) ==
    LET net(q) == Cardinality({k \in p..q : ListBeginAt(s, k)})
                  - Cardinality({k \in p..q : ListEndAt(s, k)})
        ends == {q \in p..(Len(s) - 1) : net(q) = 0}
    IN  IF ends = {} THEN Len(s) ELSE Least(ends)

ListHasItem(s, p) == \E k \in p..(ListClose(s, p) - 1) : ItemAt(s, k)

\* index in the text of the first character of line k (1-based) of ls
LineStart(ls, k) == IF k = 1 THEN 0 ELSE Len(JoinLines(SubSeq(ls, 1, k - 1)))

\* the lines of a text with an empty \item line after every line on which
\* an item-less list begins
RECURSIVE WithEmptyItems(_, _, _)
WithEmptyItems(s, ls, k) ==
    IF k > Len(ls) THEN <<>>
    ELSE LET a == LineStart(ls, k)
             bare == \E p \in a..(a + Len(ls[k]) - 1) :
                         ListBeginAt(s, p) /\ ~ListHasItem(s, p)
         IN  (IF bare THEN <<ls[k], LitItem>> ELSE <<ls[k]>>)
             \o WithEmptyItems(s, ls, k + 1)

\* C7: ensure_list_items inserts an empty \item line right after the line of
\* a list begin exactly when that list holds no item between its begin and
\* its end; a list that holds an item, on the line of its begin marker or
\* later, is left as it is.
C7_ItemlessListsFilled ==
    pc = "itemized" =>
        LET ls == SplitLines(input) IN
        ls # <<>> => SplitLines(src) = WithEmptyItems(JoinLines(ls), ls, 1)

(***************************************************************************)
(* guard_glyphtounicode                                                    *)
(***************************************************************************)
LitInputGlyph == <<"\\","i","n","p","u","t","{","g","l","y","p","h","t","o","u","n","i","c","o","d","e">>
LitDotTex == <<".","t","e","x">>
LitGuarded == <<"\\","I","n","p","u","t","I","f","F","i","l","e","E","x","i","s","t","s","{","g","l","y","p","h","t","o","u","n","i","c","o","d","e",".","t","e","x","}","{","}","{","}"," ","%"," ","g","u","a","r","d","e","d"," ","f","o","r"," ","P","a","n","d","o","c">>

\* ^ and $ under re.M
AtLineStart(s, p) == p = 0 \/ At(s, p - 1) = NL

AtLineEnd(s, p) == p >= Len(s) \/ At(s, p) = NL

\* ^\s*\\input\{glyphtounicode(\.tex)?\}\s*$ matched at index p: the end
\* index, or -1.  The trailing \s* is greedy and gives back characters until
\* $ holds.
GuardMatchEnd(s, p) ==
    LET a == SkipClass(s, p, SpaceChars)
        b == a + Len(LitInputGlyph)
        c == IF MatchLit(s, b, LitDotTex) THEN b + Len(LitDotTex) ELSE b
        d == SkipClass(s, c + 1, SpaceChars)
        ends == {e \in (c + 1)..d : AtLineEnd(s, e)}
    IN  IF AtLineStart(s, p) /\ MatchLit(s, a, LitInputGlyph)
           /\ c < Len(s) /\ At(s, c) = "}" /\ ends # {}
        THEN CHOOSE e \in ends : \A x \in ends : x <= e
        ELSE -1

\* re.sub(pattern, replacement, text, flags=re.M) from index i
RECURSIVE GuardSub(_, _)
GuardSub(s, i) ==
    LET hits == {p \in i..Len(s) : GuardMatchEnd(s, p) # -1} IN
    IF hits = {} THEN Slice(s, i, Len(s))
    ELSE LET p == Least(hits) IN
         Slice(s, i, p) \o LitGuarded \o GuardSub(s, GuardMatchEnd(s, p))

guard_glyphtounicode(text) == GuardSub(text, 0)

(***************************************************************************)
(* SpecPipeline: main() from the text read to the text written, the loops  *)
(* of strip_macro_definitions and ensure_list_items taken turn by turn     *)
(***************************************************************************)
MaxPipeTok == 3
MaxTurns == 40

PipeTokens ==
    { <<"\\","n","e","w","c","o","m","m","a","n","d","{","\\","r","e","s","u","m","e","I","t","e","m","}","[","1","]","{","\\","i","t","e","m"," ","#","1","}">>, <<"\\","n","e","w","c","o","m","m","a","n","d","{","\\","f","o","o","}","{","x","}">>,
      <<"\\","r","e","s","u","m","e","I","t","e","m","{","a","}">>, LitBeginItemize \o <<NL>>, <<"{", NL>>,
      EndOf(LitDocument) \o <<NL>> }

InitPipeline ==
    /\ pc = "guard"
    /\ input \in TextsOver(PipeTokens, MaxPipeTok)
    /\ args \in [auto_fix_braces : BOOLEAN]
    /\ src = input
    /\ prev = <<>>
    /\ stats = NoStats
    /\ idx = 0
    /\ lines = <<>>
    /\ brace_delta = 0
    /\ hotspots = <<>>
    /\ turns = 0

\* s = guard_glyphtounicode(raw); strip_macro_definitions starts: i = 0
GuardStage ==
    /\ pc = "guard"
    /\ src' = guard_glyphtounicode(src)
    /\ idx' = 0
    /\ pc' = "strip"
    /\ turns' = turns + 1
    /\ UNCHANGED <<input, prev, stats, lines, brace_delta, hotspots, args>>

\* one turn of the while True loop of strip_macro_definitions; the break
\* returns src
StripTurn ==
    /\ pc = "strip"
    /\ turns < MaxTurns
    /\ LET r == StripStep(src, idx) IN
       IF r.done
       THEN /\ pc' = "rewrite"
            /\ UNCHANGED <<src, idx>>
       ELSE /\ src' = r.src
            /\ idx' = r.i
            /\ pc' = pc
    /\ turns' = turns + 1
    /\ UNCHANGED <<input, prev, stats, lines, brace_delta, hotspots, args>>

\* s = replace_invocations(s)
RewriteStage ==
    /\ pc = "rewrite"
    /\ src' = replace_invocations(src)
    /\ pc' = "balance"
    /\ turns' = turns + 1
    /\ UNCHANGED <<input, prev, stats, idx, lines, brace_delta, hotspots, args>>

\* s, stats = balance_envs(s); ensure_list_items starts: lines, i = 0
BalanceStage ==
    /\ pc = "balance"
    /\ LET r == balance_envs(src) IN
       /\ src' = r.text
       /\ stats' = [inserted_missing_ends |-> r.inserted_missing_ends,
                    unmatched_end_count |-> r.unmatched_end_count]
       /\ lines' = SplitLines(r.text)
    /\ idx' = 0
    /\ pc' = "items"
    /\ turns' = turns + 1
    /\ UNCHANGED <<input, prev, brace_delta, hotspots, args>>

\* one turn of the while i < len(lines) loop of ensure_list_items; at its
\* end the lines are joined
EnsureTurn ==
    /\ pc = "items"
    /\ turns < MaxTurns
    /\ IF idx < Len(lines)
       THEN /\ lines' = EnsureStep(lines, idx).lines
            /\ idx' = EnsureStep(lines, idx).i
            /\ UNCHANGED <<src, pc>>
       ELSE /\ src' = JoinLines(lines)
            /\ pc' = "audit"
            /\ UNCHANGED <<lines, idx>>
    /\ turns' = turns + 1
    /\ UNCHANGED <<input, prev, stats, brace_delta, hotspots, args>>

\* brace_delta = rough_brace_imbalance(s); hotspots when it is positive
AuditStage ==
    /\ pc = "audit"
    /\ brace_delta' = rough_brace_imbalance(src)
    /\ hotspots' = IF rough_brace_imbalance(src) > 0
                   THEN find_unmatched_open_braces(src) ELSE <<>>
    /\ pc' = "fix"
    /\ turns' = turns + 1
    /\ UNCHANGED <<input, src, prev, stats, idx, lines, args>>

\* if args.auto_fix_braces and brace_delta > 0: fix and count again; the
\* text is written
FixStage ==
    /\ pc = "fix"
    /\ IF args.auto_fix_braces /\ brace_delta > 0
       THEN /\ src' = auto_fix_braces(src, brace_delta)
            /\ brace_delta' = rough_brace_imbalance(auto_fix_braces(src, brace_delta))
            /\ prev' = src
       ELSE UNCHANGED <<src, brace_delta, prev>>
    /\ pc' = "done"
    /\ turns' = turns + 1
    /\ UNCHANGED <<input, stats, idx, lines, hotspots, args>>

NextPipeline ==
    \/ GuardStage
    \/ StripTurn
    \/ RewriteStage
    \/ BalanceStage
    \/ EnsureTurn
    \/ AuditStage
    \/ FixStage

\* Every step of NextPipeline counts one turn, and below the bound on the
\* turns a stage can take its step whenever the run has not ended: each
\* stage is guarded by pc alone and computes its result from the state.
RunStep == pc # "done" /\ turns < MaxTurns /\ turns' = turns + 1

\* single-threaded and synchronous: while a step is possible the program
\* takes one
SpecPipeline == InitPipeline /\ [][NextPipeline]_vars /\ WF_turns(RunStep)

\* C10: every stage is total: on every text the scanning loops of
\* strip_macro_definitions and ensure_list_items and the other stages come to
\* an end and the run reaches the point where the text is written.
C10_Terminates == <>(pc = "done")

\* a run in which a definition was stripped and an empty item inserted ended
C10_Witness ==
    /\ pc = "done"
    /\ Find(src, LitStripped, 0) # -1
    /\ \E k \in 1..Len(SplitLines(src)) : SplitLines(src)[k] = LitItem

(***************************************************************************)
(* The end-to-end scenario over SpecPipeline                               *)
(***************************************************************************)
\* the number of places where lit occurs in s
Occurrences(s, lit) ==
    Cardinality({p \in 0..(Len(s) - 1) : MatchLit(s, p, lit)})

\* the lines of ls that are the line ln
LinesEqual(ls, ln) == {k \in 1..Len(ls) : ls[k] = ln}

\* auto-fix is requested and the input holds one \begin{itemize} that is not
\* closed, on a line before the one \end{document} line, no item and no
\* resume macro, and one '{' more than '}'
Scenario ==
    /\ args.auto_fix_braces
    /\ Occurrences(input, LitBeginItemize) = 1
    /\ Occurrences(input, LitEndItemize) = 0
    /\ Occurrences(input, LitItem) = 0
    /\ Occurrences(input, LitResume) = 0
    /\ Occurrences(input, EndOf(LitDocument)) = 1
    /\ LET ls == SplitLines(input) IN
       \E m \in 1..Len(ls) :
          /\ IsEndDocument(ls[m])
          /\ \E k \in 1..(m - 1) : HasListBegin(ls[k])
    /\ NetBraces(input) = 1

\* the parts of the scenario's outcome other than the place of the closer:
\* the imbalance reported before the auto-fix is not zero, and the written
\* text has exactly one \end{itemize} line and one empty \item line, its
\* imbalance is zero, and it is the text before the auto-fix with exactly one
\* line '}' inserted
ItemAndBraceOutcome ==
    /\ pc = "fix" => brace_delta # 0
    /\ pc = "done" =>
          LET ls == SplitLines(src)
              before == SplitLines(prev)
          IN  /\ Cardinality(LinesEqual(ls, LitEndItemize)) = 1
              /\ Cardinality(LinesEqual(ls, LitItem)) = 1
              /\ brace_delta = 0
              /\ \E k \in 1..Len(ls) :
                    /\ ls[k] = <<"}">>
                    /\ before = SubSeq(ls, 1, k - 1) \o SubSeq(ls, k + 1, Len(ls))

\* the lines of the written text that stand just before an \end{document} line
JustBeforeEndDocument ==
    LET ls == SplitLines(src) IN
    {m \in 1..(Len(ls) - 1) : IsEndDocument(ls[m + 1])}

\* C11 as stated: in the scenario the written text has the \end{itemize}
\* on the line just before the \end{document} line, exactly one inserted
\* empty item, a nonzero imbalance reported before the auto-fix and an
\* imbalance of zero after it with exactly one inserted '}'.
C11_EndToEnd ==
    Scenario =>
        /\ ItemAndBraceOutcome
        /\ pc = "done" =>
              /\ JustBeforeEndDocument # {}
              /\ \A m \in JustBeforeEndDocument :
                    SplitLines(src)[m] = LitEndItemize

\* C11, amended: in the scenario the line just before the \end{document}
\* line of the written text is the inserted '}', and the \end{itemize} is
\* the line before that one; the rest of the outcome is as stated.
C11_ClosedBeforeBrace ==
    Scenario =>
        /\ ItemAndBraceOutcome
        /\ pc = "done" =>
              /\ JustBeforeEndDocument # {}
              /\ \A m \in JustBeforeEndDocument :
                    /\ m >= 2
                    /\ SplitLines(src)[m] = <<"}">>
                    /\ SplitLines(src)[m - 1] = LitEndItemize

\* a run of the scenario has ended: the closer, the item and the brace are
\* in the text
C11_Witness ==
    /\ Scenario
    /\ pc = "done"
    /\ prev # src
    /\ stats.inserted_missing_ends = 1
    /\ LinesEqual(SplitLines(src), LitItem) # {}

(***************************************************************************)
(* Comments in the brace scans, over SpecBrace                             *)
(***************************************************************************)
\* the text with, on every line, the comment (from the first unescaped '%')
\* removed and every escaped percent sign \% replaced by two letters: no
\* '%' is left, and every brace outside comments keeps its line and column
WithoutPercent(text) ==
    LET ls == SplitLines(text) IN
    JoinLines([k \in 1..Len(ls) |->
                  Replace(CodePart(ls[k]), <<BS, "%">>, <<"a", "a">>)])

\* the line and column of each entry of a hotspot list
Places(hs) == [n \in 1..Len(hs) |-> [line |-> hs[n].line, col |-> hs[n].col]]

\* C12: both brace scans exclude exactly the text after an unescaped '%' of
\* a line: the imbalance and the places of the unmatched openings are those
\* of the text with its comments removed and its escaped percent signs
\* replaced by letters, so a brace after an unescaped '%' is not counted and
\* a brace after \% is counted like any other.
C12_OnlyUnescapedPercent ==
    pc = "audited" =>
        /\ brace_delta = rough_brace_imbalance(WithoutPercent(input))
        /\ Places(hotspots)
              = Places(find_unmatched_open_braces(WithoutPercent(input)))

====
